---- MODULE Spec2Model ----
(***************************************************************************)
(* Download task orchestration of the YouTube downloader API (src/main.py).*)
(*                                                                         *)
(* The service is one asyncio event loop.  The endpoints and the worker    *)
(* download_youtube_content are coroutines on that loop; the worker gives  *)
(* up the loop only at `await asyncio.sleep(delay)` (and before it is     *)
(* first run by the background-task runner), so every other step of a      *)
(* worker runs with no endpoint and no other worker in between.  The       *)
(* external extractor (yt-dlp) and transcoder (ffmpeg) are environment:    *)
(* their results are chosen nondeterministically from small sets.          *)
(***************************************************************************)
EXTENDS Integers, Sequences, FiniteSets, TLC

VARIABLES
    download_tasks,   \* the in-memory ledger: a dict task id -> dict (main.py:59)
    worker,           \* per task id: the locals of download_youtube_content and its position
    files,            \* names of the files in DOWNLOAD_DIR
    now,              \* the clock read by datetime.now()
    hist,             \* per task id: history of what the worker and ledger did (ghost)
    resp              \* the HTTP response the step just taken has sent (none for a worker step)

vars == <<download_tasks, worker, files, now, hist, resp>>

----------------------------------------------------------------------------
(* Bounds of the model *)

\* largest byte count reported in a progress-hook event
MaxBytes == 2

(* Input sets *)

\* the ids uuid.uuid4() returns
TaskIds == {"t1"}
\* the ids clients name in a path; "t0" is never created
QueryIds == TaskIds \cup {"t0"}
\* the urls clients ask for
Urls == {"https://youtu.be/idA"}
\* formats clients ask for; "flac" is outside valid_formats
Formats == {"mp3", "m4a", "mp4", "flac"}
\* qualities clients ask for
Qualities == {"192"}
\* container extensions the extractor writes
Exts == {"webm", "m4a"}

----------------------------------------------------------------------------
(* Python strings and dicts *)

\* `needle in hay`
Contains(hay, needle) ==
    \E i \in 1..(Len(hay) - Len(needle) + 1) :
        SubSeq(hay, i, i + Len(needle) - 1) = needle

UpperLetters == "ABCDEFGHIJKLMNOPQRSTUVWXYZ"
LowerLetters == "abcdefghijklmnopqrstuvwxyz"

\* letter -> the letter in the other case
ToLower ==
    [c \in {SubSeq(UpperLetters, i, i) : i \in 1..Len(UpperLetters)} |->
        LET i == CHOOSE j \in 1..Len(UpperLetters) : SubSeq(UpperLetters, j, j) = c
        IN  SubSeq(LowerLetters, i, i)]
ToUpper ==
    [c \in {SubSeq(LowerLetters, i, i) : i \in 1..Len(LowerLetters)} |->
        LET i == CHOOSE j \in 1..Len(LowerLetters) : SubSeq(LowerLetters, j, j) = c
        IN  SubSeq(UpperLetters, i, i)]

LowerChar(c) == IF c \in DOMAIN ToLower THEN ToLower[c] ELSE c
UpperChar(c) == IF c \in DOMAIN ToUpper THEN ToUpper[c] ELSE c

\* str.lower()
RECURSIVE lower(_)
lower(s) ==
    IF Len(s) = 0 THEN ""
    ELSE LowerChar(SubSeq(s, 1, 1)) \o lower(SubSeq(s, 2, Len(s)))

\* str.upper()
RECURSIVE upper(_)
upper(s) ==
    IF Len(s) = 0 THEN ""
    ELSE UpperChar(SubSeq(s, 1, 1)) \o upper(SubSeq(s, 2, Len(s)))

\* str.replace(old, new) for a one-character `old`
RECURSIVE replace(_, _, _)
replace(s, old, new) ==
    IF Len(s) = 0 THEN ""
    ELSE (IF SubSeq(s, 1, 1) = old THEN new ELSE SubSeq(s, 1, 1))
         \o replace(SubSeq(s, 2, Len(s)), old, new)

\* index of the last "." of a file name, 0 when there is none
LastDot(name) ==
    IF \E i \in 1..Len(name) : SubSeq(name, i, i) = "."
    THEN CHOOSE i \in 1..Len(name) :
            /\ SubSeq(name, i, i) = "."
            /\ \A j \in (i + 1)..Len(name) : SubSeq(name, j, j) # "."
    ELSE 0

\* Path.suffix: the last dot and what follows it ("" when there is none)
suffix(path) ==
    IF LastDot(path) = 0 THEN "" ELSE SubSeq(path, LastDot(path), Len(path))

\* Path.with_suffix(sfx)
with_suffix(path, sfx) ==
    IF LastDot(path) = 0 THEN path \o sfx
    ELSE SubSeq(path, 1, LastDot(path) - 1) \o sfx

\* dict.update(patch): the keys of patch are set, every other key is kept
Merge(old, patch) ==
    [k \in (DOMAIN old) \cup (DOMAIN patch) |->
        IF k \in DOMAIN patch THEN patch[k] ELSE old[k]]

----------------------------------------------------------------------------
(* Exceptions *)

NoError == [type |-> "None", text |-> ""]

\* what str(e) of the extractor's errors can be
ErrorTexts ==
    { "HTTP Error 403: Forbidden",
      "This video is private",
      "Video not available in your country",
      "Failed to extract any player response" }

\* the extractor raises ExtractorError, or another Exception (DownloadError)
Raised ==
    { [type |-> "ExtractorError", text |-> tx] : tx \in ErrorTexts }
    \cup { [type |-> "DownloadError", text |-> "HTTP Error 403: Forbidden"],
           [type |-> "DownloadError", text |-> "Failed to extract any player response"] }

\* download_tasks[task_id] on an absent key; str(KeyError(k)) is repr(k)
KeyErr(t) == [type |-> "KeyError", text |-> "'" \o t \o "'"]

\* HTTPException(status_code, detail); str() is "<status_code>: <detail>"
HTTPException(code, detail) ==
    [type |-> "HTTPException", text |-> ToString(code) \o ": " \o detail]

\* Exception("No se pudo extraer informacion del video"), line 379
NoInfoError == [type |-> "Exception", text |-> "No se pudo extraer informacion del video"]

\* str(e).lower() of the exceptions the attempt loop catches, computed once
CaughtTexts == ErrorTexts \cup {NoInfoError.text} \cup {KeyErr(t).text : t \in TaskIds}
LoweredTexts == [tx \in CaughtTexts |-> lower(tx)]
error_text_lower(e) ==
    IF e.text \in CaughtTexts THEN LoweredTexts[e.text] ELSE lower(e.text)

----------------------------------------------------------------------------
(* Helpers of main.py *)

valid_formats == {"mp3", "mp4", "wav", "m4a"}
AudioFormats == {"mp3", "wav", "m4a"}

\* '/'.join(list)
RECURSIVE Join(_)
Join(list) ==
    IF Len(list) = 0 THEN ""
    ELSE IF Len(list) = 1 THEN list[1]
    ELSE list[1] \o "/" \o Join(Tail(list))

get_fallback_formats(format_type, quality) ==
    IF format_type \in AudioFormats
    THEN << "bestaudio[ext=m4a]", "bestaudio[ext=mp4]", "bestaudio[ext=webm]",
            "bestaudio", "best[height<=480]", "best" >>
    ELSE IF format_type = "mp4"
    THEN CASE quality = "480"  -> << "best[height<=480]", "best[height<=720]", "best" >>
           [] quality = "720"  -> << "best[height<=720]", "best[height<=1080]", "best" >>
           [] quality = "1080" -> << "best[height<=1080]", "best" >>
           [] OTHER            -> << "best" >>
    ELSE << "best" >>

\* results of subprocess.run([tool, '-version'], timeout=10)
RunOutcomes == {"rc0", "rc1", "TimeoutExpired", "FileNotFoundError"}

\* what the host answers to one probe
ProbeEnvs ==
    [ffmpeg : RunOutcomes, ffprobe : RunOutcomes,
     which_ffmpeg : BOOLEAN, which_ffprobe : BOOLEAN]

check_ffmpeg_availability(env) ==
    IF env.ffmpeg = "rc0" /\ env.ffprobe = "rc0"
    THEN TRUE
    ELSE env.which_ffmpeg /\ env.which_ffprobe

user_agents ==
    << "Mozilla/5.0 (Windows NT 10.0; Win64; x64) Chrome/120.0.0.0",
       "Mozilla/5.0 (Windows NT 10.0; Win64; x64) Chrome/119.0.0.0",
       "Mozilla/5.0 (Macintosh; Intel Mac OS X 10_15_7) Chrome/120.0.0.0",
       "Mozilla/5.0 (X11; Linux x86_64) Chrome/120.0.0.0",
       "Mozilla/5.0 (Windows NT 10.0; Win64; x64; rv:109.0) Firefox/121.0",
       "Mozilla/5.0 (Macintosh; Intel Mac OS X 10.15; rv:109.0) Firefox/121.0" >>

DOWNLOAD_DIR == "downloads"
outtmpl == DOWNLOAD_DIR \o "/%(title)s_%(id)s.%(ext)s"

\* the ydl_opts dict as first built
BaseOpts ==
    [ outtmpl |-> outtmpl,
      extract_flat |-> FALSE,
      retries |-> 5,
      ignoreerrors |-> FALSE,
      no_warnings |-> FALSE,
      http_headers |-> ("User-Agent" :> user_agents[1]) @@
                       ("Accept" :> "text/html,application/xhtml+xml,application/xml;q=0.9,image/avif,image/webp,image/apng,*/*;q=0.8"),
      socket_timeout |-> 60,
      youtube_include_dash_manifest |-> FALSE ]

\* FormatOpts that asks for the audio post-processing whatever the probe said
FormatOptsAlwaysPostprocess(format_type, quality, ffmpeg_available) ==
    IF format_type \in AudioFormats
    THEN Merge(BaseOpts,
           [ format |-> Join(get_fallback_formats(format_type, quality)),
             postprocessors |-> << [ key |-> "FFmpegExtractAudio",
                                     preferredcodec |-> format_type,
                                     preferredquality |-> quality ] >> ])
    ELSE IF format_type = "mp4"
    THEN Merge(BaseOpts, [ format |-> Join(get_fallback_formats(format_type, quality)) ])
    ELSE BaseOpts

\* ydl_opts after the configuration by format
FormatOpts(format_type, quality, ffmpeg_available) ==
    IF format_type \in AudioFormats
    THEN IF ffmpeg_available /\ format_type # "m4a"
         THEN Merge(BaseOpts,
                [ format |-> Join(get_fallback_formats(format_type, quality)),
                  postprocessors |-> << [ key |-> "FFmpegExtractAudio",
                                          preferredcodec |-> format_type,
                                          preferredquality |-> quality ] >> ])
         ELSE Merge(BaseOpts,
                [ format |-> "bestaudio[ext=m4a]/bestaudio[ext=mp4]/bestaudio" ])
    ELSE IF format_type = "mp4"
    THEN Merge(BaseOpts, [ format |-> Join(get_fallback_formats(format_type, quality)) ])
    ELSE BaseOpts

max_attempts == 5

\* the metadata the extractor resolves for a url
InfoOf(url) == [id |-> SubSeq(url, Len(url) - 2, Len(url)), title |-> "Song"]
NoInfo == [id |-> "", title |-> ""]

----------------------------------------------------------------------------
(* State *)

\* position of a worker that does not hold the event loop
Suspended == {"idle", "scheduled", "sleep", "done", "crashed"}

\* no coroutine is in the middle of a step: the event loop can run a handler
LoopFree == \A t \in DOMAIN worker : worker[t].pc \in Suspended

HasTask(t) == t \in DOMAIN download_tasks

IdleWorker ==
    [ pc |-> "idle", url |-> "", format_type |-> "", quality |-> "",
      ffmpeg_available |-> FALSE, ydl_opts |-> BaseOpts,
      attempt |-> 0, delay |-> 0, last_error |-> NoError,
      info |-> NoInfo, exc |-> NoError,
      file_path |-> "", file_size |-> 0, actual_format |-> "",
      success_message |-> "",
      sweep |-> "none" ]   \* the cleanup_old_files queued behind this worker

\* everCompleted, everError: the ledger entry has shown that status
\* attempts: iterations of the attempt loop entered; failures: iterations
\* ended by an exception; infoCalls, dlCalls, ffmpegRuns: calls of
\* extract_info, download and the transcoder; broke: the loop was left by
\* `break`; gone: the extractor raised a private/removed/geo error text;
\* deleted: DELETE removed the entry; original: the file a successful
\* conversion was made from; unlinkFailed: the unlink of that file raised
NoHist ==
    [ everCompleted |-> FALSE, everError |-> FALSE,
      attempts |-> 0, failures |-> 0,
      infoCalls |-> 0, dlCalls |-> 0, ffmpegRuns |-> 0,
      broke |-> FALSE, gone |-> FALSE, deleted |-> FALSE,
      original |-> "", unlinkFailed |-> FALSE ]

\* an HTTP response: the endpoint that answered, the id it was asked about,
\* the status code and the JSON body (the streamed file for a FileResponse)
Response(endpoint, task_id, status_code, body) ==
    [ endpoint |-> endpoint, task_id |-> task_id,
      status_code |-> status_code, body |-> body ]

NoResponse == Response("none", "", 0, << >>)

\* the response FastAPI sends for `raise HTTPException(status_code, detail)`
ErrorResponse(endpoint, task_id, status_code, detail) ==
    Response(endpoint, task_id, status_code, [ detail |-> detail ])

Init ==
    /\ download_tasks = << >>
    /\ worker = [t \in TaskIds |-> IdleWorker]
    /\ files = {}
    /\ now = 0
    /\ hist = [t \in TaskIds |-> NoHist]
    /\ resp = NoResponse

\* Updated that replaces the entry by the patch
UpdatedWholesale(t, patch) == [download_tasks EXCEPT ![t] = patch]

\* the ledger after download_tasks[t].update(patch)
Updated(t, patch) == [download_tasks EXCEPT ![t] = Merge(@, patch)]

\* the worker's locals after a step
Local(t, patch) == [worker EXCEPT ![t] = Merge(@, patch)]

\* history: which statuses the ledger entry of t has shown
Seen(t, h) ==
    IF t \in DOMAIN download_tasks'
    THEN [h EXCEPT !.everCompleted = @ \/ download_tasks'[t].status = "completed",
                   !.everError = @ \/ download_tasks'[t].status = "error"]
    ELSE h

\* history: an iteration of the attempt loop ended with an exception
Failed(h) == [h EXCEPT !.failures = @ + 1]

\* history: a ledger write inside the attempt loop, which fails on an absent entry
Wrote(t, h) == Seen(t, IF HasTask(t) THEN h ELSE Failed(h))

\* the error text names content that is gone or restricted by region
GoneKeywords == {"private", "removed", "not available", "geo"}
IsGone(e) == \E keyword \in GoneKeywords : Contains(error_text_lower(e), keyword)

----------------------------------------------------------------------------
(* POST /download *)

\* start_download that accepts every format
start_downloadUnvalidated(url, format, quality) ==
    /\ LoopFree
    /\ IF FALSE
       THEN /\ resp' = ErrorResponse("POST /download", "", 400,
                          "Formato no valido. Use: mp3, mp4, wav, m4a")
            /\ UNCHANGED <<download_tasks, worker, files, now, hist>>
       ELSE \E task_id \in DOMAIN worker :
              /\ worker[task_id].pc = "idle"   \* a fresh uuid
              /\ download_tasks' = download_tasks @@
                    (task_id :> [ status |-> "pending",
                                  progress |-> 0,
                                  message |-> "Tarea creada, iniciando...",
                                  created_at |-> now,
                                  url |-> url,
                                  format |-> format,
                                  quality |-> quality ])
              /\ worker' = Local(task_id, [ pc |-> "scheduled", url |-> url,
                                            format_type |-> format, quality |-> quality,
                                            sweep |-> "queued" ])
              /\ now' = now + 1
              /\ hist' = [hist EXCEPT ![task_id] = Seen(task_id, @)]
              /\ resp' = Response("POST /download", task_id, 200,
                    [ task_id |-> task_id, status |-> "pending",
                      message |-> "Descarga iniciada. Use /status/{task_id} para verificar el progreso." ])
              /\ UNCHANGED files

start_download(url, format, quality) ==
    /\ LoopFree
    /\ IF format \notin valid_formats
       THEN /\ resp' = ErrorResponse("POST /download", "", 400,
                          "Formato no valido. Use: mp3, mp4, wav, m4a")
            /\ UNCHANGED <<download_tasks, worker, files, now, hist>>
       ELSE \E task_id \in DOMAIN worker :
              /\ worker[task_id].pc = "idle"   \* a fresh uuid
              /\ download_tasks' = download_tasks @@
                    (task_id :> [ status |-> "pending",
                                  progress |-> 0,
                                  message |-> "Tarea creada, iniciando...",
                                  created_at |-> now,
                                  url |-> url,
                                  format |-> format,
                                  quality |-> quality ])
              /\ worker' = Local(task_id, [ pc |-> "scheduled", url |-> url,
                                            format_type |-> format, quality |-> quality,
                                            sweep |-> "queued" ])
              /\ now' = now + 1
              /\ hist' = [hist EXCEPT ![task_id] = Seen(task_id, @)]
              /\ resp' = Response("POST /download", task_id, 200,
                    [ task_id |-> task_id, status |-> "pending",
                      message |-> "Descarga iniciada. Use /status/{task_id} para verificar el progreso." ])
              /\ UNCHANGED files

----------------------------------------------------------------------------
(* The worker download_youtube_content(task_id, url, format_type, quality) *)

\* LedgerWrite that creates the entry when it is absent
LedgerWriteUpsert(t, patch, ok, ko) ==
    /\ download_tasks' = IF HasTask(t) THEN Updated(t, patch)
                         ELSE download_tasks @@ (t :> patch)
    /\ worker' = Local(t, ok)

\* one ledger write of the worker: download_tasks[t].update(patch) done and
\* the locals set to `ok`, or KeyError raised and the locals set to `ko`
LedgerWrite(t, patch, ok, ko) ==
    IF HasTask(t)
    THEN /\ download_tasks' = Updated(t, patch)
         /\ worker' = Local(t, ok)
    ELSE /\ UNCHANGED download_tasks
         /\ worker' = Local(t, ko)

\* the except clauses of the attempt loop, for exception e raised in
\* attempt `attempt`: the locals they leave
TransientKeywords == {"403", "forbidden", "blocked", "unavailable"}

\* LoopExcept whose access-blocked branch raises at once instead of retrying
LoopExceptBlockedAborts(e, attempt) ==
    LET error_msg == error_text_lower(e)
        retry == [ last_error |-> e, attempt |-> attempt + 1, pc |-> "loop" ]
        raise(x) == [ last_error |-> e, exc |-> x, pc |-> "boundary" ]
    IN  IF e.type = "ExtractorError"
        THEN IF \E keyword \in TransientKeywords : Contains(error_msg, keyword)
             THEN raise(e)
             ELSE IF Contains(error_msg, "private") \/ Contains(error_msg, "removed")
             THEN raise(HTTPException(404,
                    "El video es privado, ha sido eliminado o no esta disponible"))
             ELSE IF Contains(error_msg, "not available") \/ Contains(error_msg, "geo")
             THEN raise(HTTPException(403, "El video no esta disponible en tu region"))
             ELSE IF attempt = max_attempts - 1 THEN raise(e) ELSE retry
        ELSE IF attempt < max_attempts - 1 THEN retry ELSE raise(e)

LoopExcept(e, attempt) ==
    LET error_msg == error_text_lower(e)
        retry == [ last_error |-> e, attempt |-> attempt + 1, pc |-> "loop" ]
        raise(x) == [ last_error |-> e, exc |-> x, pc |-> "boundary" ]
    IN  IF e.type = "ExtractorError"
        THEN IF \E keyword \in TransientKeywords : Contains(error_msg, keyword)
             THEN IF attempt < max_attempts - 1 THEN retry ELSE raise(e)
             ELSE IF Contains(error_msg, "private") \/ Contains(error_msg, "removed")
             THEN raise(HTTPException(404,
                    "El video es privado, ha sido eliminado o no esta disponible"))
             ELSE IF Contains(error_msg, "not available") \/ Contains(error_msg, "geo")
             THEN raise(HTTPException(403, "El video no esta disponible en tu region"))
             ELSE IF attempt = max_attempts - 1 THEN raise(e) ELSE retry
        ELSE IF attempt < max_attempts - 1 THEN retry ELSE raise(e)

\* InfoExcept with a retry budget of its own: a metadata failure does not
\* advance the attempt index
InfoExceptOwnBudget(info_error, attempt) ==
    IF attempt < max_attempts - 1
    THEN [ attempt |-> attempt, pc |-> "loop" ]
    ELSE LoopExcept(info_error, attempt)

\* the except clause around extract_info
InfoExcept(info_error, attempt) ==
    IF attempt < max_attempts - 1
    THEN [ attempt |-> attempt + 1, pc |-> "loop" ]
    ELSE LoopExcept(info_error, attempt)

\* lines 218-223: the first ledger write
Begin(t) ==
    /\ worker[t].pc = "scheduled"
    /\ LoopFree
    /\ LedgerWrite(t, [ status |-> "processing", progress |-> 0,
                        message |-> "Iniciando descarga..." ],
                   [ pc |-> "configure" ],
                   [ pc |-> "boundary", exc |-> KeyErr(t) ])
    /\ hist' = [hist EXCEPT ![t] = Seen(t, @)]
    /\ UNCHANGED <<files, now>>
    /\ resp' = NoResponse

\* lines 226-318: capability probe and the configuration by format
Configure(t, env) ==
    /\ worker[t].pc = "configure"
    /\ LET w == worker[t]
           ffmpeg_available == check_ffmpeg_availability(env)
           set == [ ffmpeg_available |-> ffmpeg_available,
                    ydl_opts |-> FormatOpts(w.format_type, w.quality, ffmpeg_available),
                    attempt |-> 0, last_error |-> NoError, pc |-> "loop" ]
       IN  IF w.format_type \in AudioFormats
              /\ ~(ffmpeg_available /\ w.format_type # "m4a")
           THEN LedgerWrite(t,
                   [ message |-> "FFmpeg no disponible. Descargando en formato M4A de alta calidad." ],
                   set,
                   [ ffmpeg_available |-> ffmpeg_available,
                     pc |-> "boundary", exc |-> KeyErr(t) ])
           ELSE /\ worker' = Local(t, set)
                /\ UNCHANGED download_tasks
    /\ hist' = [hist EXCEPT ![t] = Seen(t, @)]
    /\ UNCHANGED <<files, now>>
    /\ resp' = NoResponse

\* ydl_opts as the strategies of attempt `attempt` leave it (lines 327-362)
Strategy(ydl_opts, attempt) ==
    LET hdr(h) == [ydl_opts EXCEPT !.http_headers = Merge(@, h)]
        rotated == hdr("User-Agent" :> user_agents[(attempt % Len(user_agents)) + 1])
    IN  CASE attempt = 0 -> rotated
          [] attempt = 1 ->
                [rotated EXCEPT !.http_headers = Merge(@,
                    ("Referer" :> "https://www.youtube.com/") @@
                    ("Cookie" :> "CONSENT=YES+cb; YSC=randomstring; VISITOR_INFO1_LIVE=randomstring"))]
          [] attempt = 2 ->
                [rotated EXCEPT !.http_headers = Merge(@,
                    ("User-Agent" :> "Mozilla/5.0 (iPhone; CPU iPhone OS 17_0 like Mac OS X) AppleWebKit/605.1.15") @@
                    ("Accept" :> "text/html,application/xhtml+xml,application/xml;q=0.9,*/*;q=0.8"))]
          [] attempt = 3 ->
                Merge(rotated, [ youtube_include_dash_manifest |-> TRUE,
                                 extract_flat |-> TRUE,
                                 format |-> "best/worst",
                                 socket_timeout |-> 120 ])
          [] attempt = 4 ->
                [ outtmpl |-> outtmpl,
                  format |-> "worst",
                  http_headers |-> ("User-Agent" :> "yt-dlp/2023.12.30"),
                  socket_timeout |-> 180,
                  retries |-> 10,
                  ignoreerrors |-> TRUE,
                  no_warnings |-> TRUE ]
          [] OTHER -> rotated

\* min(5 * (2 ** (attempt - 1)), 30)
RECURSIVE Pow2(_)
Pow2(n) == IF n <= 0 THEN 1 ELSE 2 * Pow2(n - 1)
Min(a, b) == IF a < b THEN a ELSE b
\* Backoff without the cap of 30 seconds
BackoffUncapped(attempt) == 5 * Pow2(attempt - 1)

Backoff(attempt) == Min(5 * Pow2(attempt - 1), 30)

\* LoopTop that leaves ydl_opts as it is once an attempt has failed in download
LoopTopKeepsOptsAfterError(t) ==
    /\ worker[t].pc = "loop"
    /\ LET w == worker[t] IN
         LedgerWrite(t,
            [ message |-> "Intento " \o ToString(w.attempt + 1) \o " de "
                          \o ToString(max_attempts)
                          \o "... (Estrategia anti-bloqueo activa)" ],
            [ ydl_opts |-> IF w.last_error # NoError THEN w.ydl_opts
                            ELSE Strategy(w.ydl_opts, w.attempt),
              pc |-> IF w.attempt > 0 THEN "backoff" ELSE "extract" ],
            LoopExcept(KeyErr(t), w.attempt))
    /\ hist' = [hist EXCEPT ![t] = Wrote(t, [@ EXCEPT !.attempts = @ + 1])]
    /\ UNCHANGED <<files, now>>
    /\ resp' = NoResponse

\* lines 320-362: top of one iteration of `for attempt in range(max_attempts)`
LoopTop(t) ==
    /\ worker[t].pc = "loop"
    /\ LET w == worker[t] IN
         LedgerWrite(t,
            [ message |-> "Intento " \o ToString(w.attempt + 1) \o " de "
                          \o ToString(max_attempts)
                          \o "... (Estrategia anti-bloqueo activa)" ],
            [ ydl_opts |-> Strategy(w.ydl_opts, w.attempt),
              pc |-> IF w.attempt > 0 THEN "backoff" ELSE "extract" ],
            LoopExcept(KeyErr(t), w.attempt))
    /\ hist' = [hist EXCEPT ![t] = Wrote(t, [@ EXCEPT !.attempts = @ + 1])]
    /\ UNCHANGED <<files, now>>
    /\ resp' = NoResponse

\* BackoffMsg that suspends without writing the delay message
BackoffMsgSilent(t) ==
    /\ worker[t].pc = "backoff"
    /\ LET w == worker[t]
           delay == Backoff(w.attempt)
       IN  LedgerWrite(t,
              << >>,
              [ delay |-> delay, pc |-> "sleep" ],
              LoopExcept(KeyErr(t), w.attempt))
    /\ hist' = [hist EXCEPT ![t] = Wrote(t, @)]
    /\ UNCHANGED <<files, now>>
    /\ resp' = NoResponse

\* lines 365-369: the delay and its message; the worker then suspends
BackoffMsg(t) ==
    /\ worker[t].pc = "backoff"
    /\ LET w == worker[t]
           delay == Backoff(w.attempt)
       IN  LedgerWrite(t,
              [ message |-> "Esperando " \o ToString(delay) \o "s antes del intento "
                            \o ToString(w.attempt + 1) \o "..." ],
              [ delay |-> delay, pc |-> "sleep" ],
              LoopExcept(KeyErr(t), w.attempt))
    /\ hist' = [hist EXCEPT ![t] = Wrote(t, @)]
    /\ UNCHANGED <<files, now>>
    /\ resp' = NoResponse

\* line 370: asyncio.sleep(delay) returns
Wake(t) ==
    /\ worker[t].pc = "sleep"
    /\ LoopFree
    /\ worker' = Local(t, [ pc |-> "extract" ])
    /\ UNCHANGED <<download_tasks, files, now, hist>>
    /\ resp' = NoResponse

\* clean_filename: every character of invalid_chars becomes "_", the result
\* is cut to 200 characters
invalid_chars == {"<", ">", ":", "\"", "/", "\\", "|", "?", "*"}

RECURSIVE ReplaceInvalid(_)
ReplaceInvalid(filename) ==
    IF Len(filename) = 0 THEN ""
    ELSE (IF SubSeq(filename, 1, 1) \in invalid_chars THEN "_" ELSE SubSeq(filename, 1, 1))
         \o ReplaceInvalid(SubSeq(filename, 2, Len(filename)))

clean_filename(filename) ==
    LET cleaned == ReplaceInvalid(filename)
    IN  SubSeq(cleaned, 1, Min(Len(cleaned), 200))

\* clean_title[:50]
clean_title(title) ==
    LET cleaned == clean_filename(title)
    IN  SubSeq(cleaned, 1, Min(Len(cleaned), 50))

\* lines 374-402: ydl.extract_info(url, download=False) returns metadata
ExtractInfoOk(t) ==
    /\ worker[t].pc = "extract"
    /\ LET w == worker[t]
           info == InfoOf(w.url)
       IN  LedgerWrite(t,
              [ video_info |-> [ title |-> info.title ],
                message |-> "Descargando: " \o clean_title(info.title) \o "..." ],
              [ info |-> info, pc |-> "download" ],
              Merge([ info |-> info ], LoopExcept(KeyErr(t), w.attempt)))
    /\ hist' = [hist EXCEPT ![t] =
                    Wrote(t, [@ EXCEPT !.infoCalls = @ + 1,
                                       !.dlCalls = @ + (IF HasTask(t) THEN 1 ELSE 0)])]
    /\ UNCHANGED <<files, now>>
    /\ resp' = NoResponse

\* lines 376-384: extract_info raises e, or returns nothing (e is then the
\* Exception raised on line 379)
ExtractInfoFail(t, e) ==
    /\ worker[t].pc = "extract"
    /\ worker' = Local(t, InfoExcept(e, worker[t].attempt))
    /\ hist' = [hist EXCEPT ![t] =
                    Failed([@ EXCEPT !.infoCalls = @ + 1,
                                     !.gone = @ \/ IsGone(e)])]
    /\ UNCHANGED <<download_tasks, files, now>>
    /\ resp' = NoResponse

----------------------------------------------------------------------------
(* CustomYTDL.progress_hook, called by the extractor inside ydl.download *)

\* what the extractor names a file it writes: outtmpl filled in
FileName(info, ext) ==
    DOWNLOAD_DIR \o "/" \o info.title \o "_" \o info.id \o "." \o ext

\* int((downloaded_bytes / total) * 100)
Percent(downloaded_bytes, total) == (downloaded_bytes * 100) \div total

\* HookPatch whose 'finished' branch leaves the progress as it is
HookPatchStaleProgress(d) ==
    IF d.status = "downloading"
    THEN LET progress ==
               IF d.total_bytes # 0
               THEN Percent(d.downloaded_bytes, d.total_bytes)
               ELSE IF d.total_bytes_estimate # 0
               THEN Percent(d.downloaded_bytes, d.total_bytes_estimate)
               ELSE 0
         IN  [ progress |-> progress,
               status |-> "processing",
               message |-> "Descargando... " \o ToString(progress) \o "%" ]
    ELSE IF d.status = "finished"
    THEN [ status |-> "completed",
           message |-> "Descarga completada",
           file_path |-> d.filename ]
    ELSE << >>

\* the patch progress_hook(d) merges into the ledger entry; << >> when the
\* event has another status
HookPatch(d) ==
    IF d.status = "downloading"
    THEN LET progress ==
               IF d.total_bytes # 0
               THEN Percent(d.downloaded_bytes, d.total_bytes)
               ELSE IF d.total_bytes_estimate # 0
               THEN Percent(d.downloaded_bytes, d.total_bytes_estimate)
               ELSE 0
         IN  [ progress |-> progress,
               status |-> "processing",
               message |-> "Descargando... " \o ToString(progress) \o "%" ]
    ELSE IF d.status = "finished"
    THEN [ progress |-> 100,
           status |-> "completed",
           message |-> "Descarga completada",
           file_path |-> d.filename ]
    ELSE << >>

\* the events the extractor reports while it transfers
DownloadingEvents ==
    [ status : {"downloading"}, downloaded_bytes : 0..MaxBytes,
      total_bytes : 0..MaxBytes, total_bytes_estimate : 0..MaxBytes ]

\* a 'downloading' event during ydl.download (line 403)
HookDownloading(t, d) ==
    /\ worker[t].pc = "download"
    /\ LedgerWrite(t, HookPatch(d),
                   << >>,
                   LoopExcept(KeyErr(t), worker[t].attempt))
    /\ hist' = [hist EXCEPT ![t] = Wrote(t, @)]
    /\ UNCHANGED <<files, now>>
    /\ resp' = NoResponse

\* the extractor has written a file and reports 'finished'
HookFinished(t, ext) ==
    /\ worker[t].pc = "download"
    /\ LET filename == FileName(worker[t].info, ext) IN
         /\ files' = files \cup {filename}
         /\ LedgerWrite(t, HookPatch([ status |-> "finished", filename |-> filename ]),
                        << >>,
                        LoopExcept(KeyErr(t), worker[t].attempt))
    /\ hist' = [hist EXCEPT ![t] = Wrote(t, @)]
    /\ UNCHANGED now
    /\ resp' = NoResponse

\* ydl.download returns: lines 405-407, break
DownloadOk(t) ==
    /\ worker[t].pc = "download"
    /\ worker' = Local(t, [ pc |-> "after_loop" ])
    /\ hist' = [hist EXCEPT ![t].broke = TRUE]
    /\ UNCHANGED <<download_tasks, files, now>>
    /\ resp' = NoResponse

\* ydl.download raises e
DownloadFail(t, e) ==
    /\ worker[t].pc = "download"
    /\ worker' = Local(t, LoopExcept(e, worker[t].attempt))
    /\ hist' = [hist EXCEPT ![t] = Failed([@ EXCEPT !.gone = @ \/ IsGone(e)])]
    /\ UNCHANGED <<download_tasks, files, now>>
    /\ resp' = NoResponse

\* the HTTPException of lines 438-441
UpstreamBlocked ==
    HTTPException(503,
        "YouTube esta bloqueando las descargas temporalmente. Intenta mas tarde o actualiza yt-dlp con: pip install --upgrade yt-dlp")

\* lines 434-442
AfterLoop(t) ==
    /\ worker[t].pc = "after_loop"
    /\ LET w == worker[t] IN
         worker' = Local(t,
            IF w.last_error # NoError
            THEN IF Contains(error_text_lower(w.last_error), "player response")
                 THEN [ pc |-> "boundary", exc |-> UpstreamBlocked ]
                 ELSE [ pc |-> "boundary", exc |-> w.last_error ]
            ELSE [ pc |-> "discover" ])
    /\ UNCHANGED <<download_tasks, files, now, hist>>
    /\ resp' = NoResponse

----------------------------------------------------------------------------
(* File discovery and post-download conversion *)

\* DOWNLOAD_DIR.glob(f"*{id}*")
Glob(id) == { f \in files : Contains(SubSeq(f, Len(DOWNLOAD_DIR) + 2, Len(f)), id) }

\* st_size of a file that exists; 0 when stat fails
get_file_size(path, disk) == IF path \in disk THEN 1 ELSE 0

FileMissing == [type |-> "Exception", text |-> "No se encontro el archivo descargado"]

\* Discover that converts an audio file whatever its format is
DiscoverAlwaysConverts(t) ==
    /\ worker[t].pc = "discover"
    /\ LET w == worker[t]
           downloaded_files == Glob(w.info.id)
       IN  IF downloaded_files = {}
           THEN worker' = Local(t, [ pc |-> "boundary", exc |-> FileMissing ])
           ELSE \E file_path \in downloaded_files :
                  LET actual_format == replace(lower(suffix(file_path)), ".", "")
                      success_message == "Descarga completada exitosamente"
                      found == [ file_path |-> file_path,
                                 file_size |-> get_file_size(file_path, files),
                                 actual_format |-> actual_format ]
                  IN  worker' = Local(t,
                        IF w.format_type \in AudioFormats
                        THEN IF w.ffmpeg_available
                             THEN Merge(found, [ success_message |-> success_message,
                                                 pc |-> "convert" ])
                             ELSE Merge(found,
                                    [ success_message |-> success_message
                                        \o " (formato: " \o upper(actual_format)
                                        \o " - instala FFmpeg para conversion a "
                                        \o upper(w.format_type) \o ")",
                                      pc |-> "finalize" ])
                        ELSE Merge(found, [ success_message |-> success_message,
                                            pc |-> "finalize" ]))
    /\ UNCHANGED <<download_tasks, files, now, hist>>
    /\ resp' = NoResponse

\* Discover that finalizes without a file
DiscoverWithoutFile(t) ==
    /\ worker[t].pc = "discover"
    /\ LET w == worker[t]
           downloaded_files == Glob(w.info.id)
       IN  IF downloaded_files = {}
           THEN worker' = Local(t, [ success_message |-> "Descarga completada exitosamente",
                                     pc |-> "finalize" ])
           ELSE \E file_path \in downloaded_files :
                  LET actual_format == replace(lower(suffix(file_path)), ".", "")
                      success_message == "Descarga completada exitosamente"
                      found == [ file_path |-> file_path,
                                 file_size |-> get_file_size(file_path, files),
                                 actual_format |-> actual_format ]
                  IN  worker' = Local(t,
                        IF w.format_type \in AudioFormats /\ actual_format # w.format_type
                        THEN IF w.ffmpeg_available
                             THEN Merge(found, [ success_message |-> success_message,
                                                 pc |-> "convert" ])
                             ELSE Merge(found,
                                    [ success_message |-> success_message
                                        \o " (formato: " \o upper(actual_format)
                                        \o " - instala FFmpeg para conversion a "
                                        \o upper(w.format_type) \o ")",
                                      pc |-> "finalize" ])
                        ELSE Merge(found, [ success_message |-> success_message,
                                            pc |-> "finalize" ]))
    /\ UNCHANGED <<download_tasks, files, now, hist>>
    /\ resp' = NoResponse

\* lines 446-457 and 485-486, 496-498
Discover(t) ==
    /\ worker[t].pc = "discover"
    /\ LET w == worker[t]
           downloaded_files == Glob(w.info.id)
       IN  IF downloaded_files = {}
           THEN worker' = Local(t, [ pc |-> "boundary", exc |-> FileMissing ])
           ELSE \E file_path \in downloaded_files :
                  LET actual_format == replace(lower(suffix(file_path)), ".", "")
                      success_message == "Descarga completada exitosamente"
                      found == [ file_path |-> file_path,
                                 file_size |-> get_file_size(file_path, files),
                                 actual_format |-> actual_format ]
                  IN  worker' = Local(t,
                        IF w.format_type \in AudioFormats /\ actual_format # w.format_type
                        THEN IF w.ffmpeg_available
                             THEN Merge(found, [ success_message |-> success_message,
                                                 pc |-> "convert" ])
                             ELSE Merge(found,
                                    [ success_message |-> success_message
                                        \o " (formato: " \o upper(actual_format)
                                        \o " - instala FFmpeg para conversion a "
                                        \o upper(w.format_type) \o ")",
                                      pc |-> "finalize" ])
                        ELSE Merge(found, [ success_message |-> success_message,
                                            pc |-> "finalize" ]))
    /\ UNCHANGED <<download_tasks, files, now, hist>>
    /\ resp' = NoResponse

\* results of subprocess.run(ffmpeg_cmd, timeout=120)
ConvertOutcomes == {"rc0", "rc1", "TimeoutExpired"}

\* Convert that keeps the original file as the result after a successful conversion
ConvertKeepsOriginal(t, outcome, unlinked) ==
    /\ worker[t].pc = "convert"
    /\ LET w == worker[t]
           converted_path == with_suffix(w.file_path, "." \o w.format_type)
           written == IF outcome = "rc0" THEN files \cup {converted_path} ELSE files
           failed_note == " (No se pudo convertir a " \o upper(w.format_type)
                          \o ", se entrega el archivo original: "
                          \o suffix(w.file_path) \o ")"
       IN  IF outcome = "rc0" /\ converted_path \in written
           THEN /\ files' = IF unlinked THEN written \ {w.file_path} ELSE written
                /\ worker' = Local(t,
                     [ file_size |-> get_file_size(w.file_path, files'),
                       actual_format |-> w.format_type,
                       success_message |-> w.success_message \o " (convertido a "
                            \o upper(w.format_type) \o " tras la descarga)",
                       pc |-> "finalize" ])
           ELSE /\ files' = written
                /\ worker' = Local(t,
                     [ success_message |-> w.success_message \o failed_note,
                       pc |-> "finalize" ])
    /\ hist' = [hist EXCEPT ![t] =
                    IF outcome = "rc0"
                    THEN [@ EXCEPT !.ffmpegRuns = @ + 1,
                                   !.original = worker[t].file_path,
                                   !.unlinkFailed = ~unlinked]
                    ELSE [@ EXCEPT !.ffmpegRuns = @ + 1]]
    /\ UNCHANGED <<download_tasks, now>>
    /\ resp' = NoResponse

\* lines 458-484
Convert(t, outcome, unlinked) ==
    /\ worker[t].pc = "convert"
    /\ LET w == worker[t]
           converted_path == with_suffix(w.file_path, "." \o w.format_type)
           written == IF outcome = "rc0" THEN files \cup {converted_path} ELSE files
           failed_note == " (No se pudo convertir a " \o upper(w.format_type)
                          \o ", se entrega el archivo original: "
                          \o suffix(w.file_path) \o ")"
       IN  IF outcome = "rc0" /\ converted_path \in written
           THEN /\ files' = IF unlinked THEN written \ {w.file_path} ELSE written
                /\ worker' = Local(t,
                     [ file_path |-> converted_path,
                       file_size |-> get_file_size(converted_path, files'),
                       actual_format |-> w.format_type,
                       success_message |-> w.success_message \o " (convertido a "
                            \o upper(w.format_type) \o " tras la descarga)",
                       pc |-> "finalize" ])
           ELSE /\ files' = written
                /\ worker' = Local(t,
                     [ success_message |-> w.success_message \o failed_note,
                       pc |-> "finalize" ])
    /\ hist' = [hist EXCEPT ![t] =
                    IF outcome = "rc0"
                    THEN [@ EXCEPT !.ffmpegRuns = @ + 1,
                                   !.original = worker[t].file_path,
                                   !.unlinkFailed = ~unlinked]
                    ELSE [@ EXCEPT !.ffmpegRuns = @ + 1]]
    /\ UNCHANGED <<download_tasks, now>>
    /\ resp' = NoResponse

\* lines 488-495: the final update
Finalize(t) ==
    /\ worker[t].pc = "finalize"
    /\ LET w == worker[t] IN
         LedgerWrite(t,
            [ status |-> "completed", progress |-> 100,
              message |-> w.success_message,
              file_path |-> w.file_path,
              file_size |-> w.file_size,
              actual_format |-> w.actual_format ],
            [ pc |-> "done" ],
            [ pc |-> "boundary", exc |-> KeyErr(t) ])
    /\ hist' = [hist EXCEPT ![t] = Seen(t, @)]
    /\ UNCHANGED <<files, now>>
    /\ resp' = NoResponse

\* lines 500-506: `except Exception as e` around the whole worker; the
\* KeyError of its own ledger write is not caught by anything
Boundary(t) ==
    /\ worker[t].pc = "boundary"
    /\ LedgerWrite(t,
          [ status |-> "error", progress |-> 0,
            message |-> "Error: " \o worker[t].exc.text ],
          [ pc |-> "done" ],
          [ pc |-> "crashed", exc |-> KeyErr(t) ])
    /\ hist' = [hist EXCEPT ![t] = Seen(t, @)]
    /\ UNCHANGED <<files, now>>
    /\ resp' = NoResponse

----------------------------------------------------------------------------
(* cleanup_old_files, the background task start_download queues behind the
   worker: the background tasks of one request run one after another, so it
   runs when the worker has returned and not at all when an exception left
   the worker.  `old` are the files whose mtime is before the cutoff. *)

cleanup_old_files(t, old) ==
    /\ worker[t].pc = "done"
    /\ worker[t].sweep = "queued"
    /\ files' = files \ old
    /\ worker' = Local(t, [ sweep |-> "ran" ])
    /\ resp' = NoResponse
    /\ UNCHANGED <<download_tasks, now, hist>>

----------------------------------------------------------------------------
(* DELETE /task/{task_id} *)

delete_task(task_id) ==
    /\ LoopFree
    /\ IF ~HasTask(task_id)
       THEN /\ resp' = ErrorResponse("DELETE /task", task_id, 404, "Tarea no encontrada")
            /\ UNCHANGED <<download_tasks, worker, files, now, hist>>
       ELSE LET task == download_tasks[task_id] IN
            /\ files' = IF "file_path" \in DOMAIN task
                        THEN files \ {task.file_path}
                        ELSE files
            /\ download_tasks' = [k \in (DOMAIN download_tasks) \ {task_id} |->
                                    download_tasks[k]]
            /\ hist' = [hist EXCEPT ![task_id].deleted = TRUE]
            /\ resp' = Response("DELETE /task", task_id, 200,
                                [ message |-> "Tarea eliminada exitosamente" ])
            /\ UNCHANGED <<worker, now>>

----------------------------------------------------------------------------
(* GET /status/{task_id} and GET /file/{task_id} *)

\* the value Python's None
None == "None"

\* dict.get(key)
Get(dict, key) == IF key \in DOMAIN dict THEN dict[key] ELSE None

\* Path.name
RECURSIVE basename(_)
basename(path) ==
    IF \E i \in 1..Len(path) : SubSeq(path, i, i) = "/"
    THEN basename(SubSeq(path,
            1 + (CHOOSE i \in 1..Len(path) : SubSeq(path, i, i) = "/"), Len(path)))
    ELSE path

\* get_download_status that answers a default record for an absent id
get_download_statusDefault(task_id) ==
    /\ LoopFree
    /\ resp' =
          IF ~HasTask(task_id)
          THEN Response("GET /status", task_id, 200,
                  [ task_id |-> task_id, status |-> "pending", progress |-> 0,
                    message |-> "", file_path |-> None, file_size |-> None ])
          ELSE LET task == download_tasks[task_id] IN
               Response("GET /status", task_id, 200,
                  [ task_id |-> task_id,
                    status |-> task.status,
                    progress |-> task.progress,
                    message |-> task.message,
                    file_path |-> Get(task, "file_path"),
                    file_size |-> Get(task, "file_size") ])
    /\ UNCHANGED <<download_tasks, worker, files, now, hist>>

get_download_status(task_id) ==
    /\ LoopFree
    /\ resp' =
          IF ~HasTask(task_id)
          THEN ErrorResponse("GET /status", task_id, 404, "Tarea no encontrada")
          ELSE LET task == download_tasks[task_id] IN
               Response("GET /status", task_id, 200,
                  [ task_id |-> task_id,
                    status |-> task.status,
                    progress |-> task.progress,
                    message |-> task.message,
                    file_path |-> Get(task, "file_path"),
                    file_size |-> Get(task, "file_size") ])
    /\ UNCHANGED <<download_tasks, worker, files, now, hist>>

\* download_file that does not look at the status
download_fileAnyStatus(task_id) ==
    /\ LoopFree
    /\ resp' =
          IF ~HasTask(task_id)
          THEN ErrorResponse("GET /file", task_id, 404, "Tarea no encontrada")
          ELSE LET task == download_tasks[task_id] IN
               IF FALSE
               THEN ErrorResponse("GET /file", task_id, 400,
                                  "La descarga no esta completada")
               ELSE IF Get(task, "file_path") \notin files
               THEN ErrorResponse("GET /file", task_id, 404, "Archivo no encontrado")
               ELSE Response("GET /file", task_id, 200,
                      [ path |-> Get(task, "file_path"),
                        filename |-> basename(Get(task, "file_path")),
                        media_type |-> "application/octet-stream" ])
    /\ UNCHANGED <<download_tasks, worker, files, now, hist>>

download_file(task_id) ==
    /\ LoopFree
    /\ resp' =
          IF ~HasTask(task_id)
          THEN ErrorResponse("GET /file", task_id, 404, "Tarea no encontrada")
          ELSE LET task == download_tasks[task_id] IN
               IF task.status # "completed"
               THEN ErrorResponse("GET /file", task_id, 400,
                                  "La descarga no esta completada")
               ELSE IF task.file_path \notin files
               THEN ErrorResponse("GET /file", task_id, 404, "Archivo no encontrado")
               ELSE Response("GET /file", task_id, 200,
                      [ path |-> task.file_path,
                        filename |-> basename(task.file_path),
                        media_type |-> "application/octet-stream" ])
    /\ UNCHANGED <<download_tasks, worker, files, now, hist>>

----------------------------------------------------------------------------
(* The service *)

Next ==
    \/ \E url \in Urls, format \in Formats, quality \in Qualities :
          start_download(url, format, quality)
    \/ \E t \in TaskIds : Begin(t)
    \/ \E t \in TaskIds, env \in ProbeEnvs : Configure(t, env)
    \/ \E t \in TaskIds : LoopTop(t)
    \/ \E t \in TaskIds : BackoffMsg(t)
    \/ \E t \in TaskIds : Wake(t)
    \/ \E t \in TaskIds : ExtractInfoOk(t)
    \/ \E t \in TaskIds, e \in Raised \cup {NoInfoError} : ExtractInfoFail(t, e)
    \/ \E t \in TaskIds, d \in DownloadingEvents : HookDownloading(t, d)
    \/ \E t \in TaskIds, ext \in Exts : HookFinished(t, ext)
    \/ \E t \in TaskIds : DownloadOk(t)
    \/ \E t \in TaskIds, e \in Raised : DownloadFail(t, e)
    \/ \E t \in TaskIds : AfterLoop(t)
    \/ \E t \in TaskIds : Discover(t)
    \/ \E t \in TaskIds, outcome \in ConvertOutcomes, unlinked \in BOOLEAN :
          Convert(t, outcome, unlinked)
    \/ \E t \in TaskIds : Finalize(t)
    \/ \E t \in TaskIds : Boundary(t)
    \/ \E t \in TaskIds, old \in SUBSET files : cleanup_old_files(t, old)
    \/ \E task_id \in QueryIds : delete_task(task_id)
    \/ \E task_id \in QueryIds : get_download_status(task_id)
    \/ \E task_id \in QueryIds : download_file(task_id)

Spec == Init /\ [][Next]_vars

----------------------------------------------------------------------------
(* The service with two tasks for the same url.  The extractor and the host
   are the ones of a run without failures: ffmpeg and ffprobe answer, every
   attempt succeeds, and the extractor reports one finished file. *)

\* the ids uuid.uuid4() returns when two requests are posted
TwoTaskIds == {"t1", "t2"}
\* the audio formats the two requests ask for
TwoFormats == {"mp3", "m4a"}
\* a host on which `ffmpeg -version` and `ffprobe -version` exit 0
HealthyEnv ==
    [ffmpeg |-> "rc0", ffprobe |-> "rc0", which_ffmpeg |-> TRUE, which_ffprobe |-> TRUE]

InitTwo ==
    /\ download_tasks = << >>
    /\ worker = [t \in TwoTaskIds |-> IdleWorker]
    /\ files = {}
    /\ now = 0
    /\ hist = [t \in TwoTaskIds |-> NoHist]
    /\ resp = NoResponse

NextTwo ==
    \/ \E url \in Urls, format \in TwoFormats, quality \in Qualities :
          start_download(url, format, quality)
    \/ \E t \in TwoTaskIds : Begin(t)
    \/ \E t \in TwoTaskIds : Configure(t, HealthyEnv)
    \/ \E t \in TwoTaskIds : LoopTop(t)
    \/ \E t \in TwoTaskIds : ExtractInfoOk(t)
    \/ \E t \in TwoTaskIds, ext \in Exts : HookFinished(t, ext)
    \/ \E t \in TwoTaskIds : DownloadOk(t)
    \/ \E t \in TwoTaskIds : AfterLoop(t)
    \/ \E t \in TwoTaskIds : Discover(t)
    \/ \E t \in TwoTaskIds, outcome \in ConvertOutcomes, unlinked \in BOOLEAN :
          Convert(t, outcome, unlinked)
    \/ \E t \in TwoTaskIds : Finalize(t)
    \/ \E t \in TwoTaskIds : Boundary(t)
    \/ \E t \in TwoTaskIds, old \in SUBSET files : cleanup_old_files(t, old)
    \/ \E task_id \in TwoTaskIds : delete_task(task_id)
    \/ \E task_id \in TwoTaskIds : download_file(task_id)

SpecTwo == InitTwo /\ [][NextTwo]_vars

----------------------------------------------------------------------------
(* Properties *)

Terminal == {"completed", "error"}

\* the worker is between its first ledger write and the end of the reconcile step
Working ==
    {"configure", "loop", "backoff", "sleep", "extract", "download",
     "after_loop", "discover", "convert", "finalize"}

\* the worker has returned, or an exception has left it
Ended == {"done", "crashed"}

\* C1: once the ledger status of a task is `completed` or `error`, no later
\* ledger update changes it to another value.
C1_TerminalStatusKept ==
    [][\A t \in TaskIds :
          ( /\ HasTask(t)
            /\ t \in DOMAIN download_tasks'
            /\ download_tasks[t].status \in Terminal )
          => download_tasks'[t].status = download_tasks[t].status]_vars

\* C2: while the worker still has an attempt, a backoff wait, the file
\* discovery or a conversion to run, the status of its task is `processing`,
\* never `completed`.
C2_ProcessingWhileWorking ==
    \A t \in TaskIds :
        (HasTask(t) /\ worker[t].pc \in Working)
        => download_tasks[t].status = "processing"

\* C3: a task never shows both `completed` and `error`, and when its worker
\* has ended the status is `completed` or `error`.
C3_ExactlyOneTerminal ==
    \A t \in TaskIds :
        /\ ~(hist[t].everCompleted /\ hist[t].everError)
        /\ (HasTask(t) /\ worker[t].pc \in Ended)
           => download_tasks[t].status \in Terminal

\* C4: when attempts failed with an error that was retried and a later attempt
\* succeeded (the loop was left by `break`) with an output file on disk, the
\* task ends `completed`.
C4_SuccessAfterRetriesCompletes ==
    \A t \in TaskIds :
        ( /\ HasTask(t)
          /\ worker[t].pc = "done"
          /\ hist[t].failures > 0
          /\ hist[t].broke
          /\ Glob(worker[t].info.id) # {} )
        => download_tasks[t].status = "completed"

\* C5: once the extractor has raised an error whose text contains "private",
\* "removed", "not available" or "geo", no further attempt is started.
C5_GoneAbortsAtOnce ==
    [][\A t \in TaskIds :
          hist[t].gone => hist'[t].attempts = hist[t].attempts]_vars

\* C6: after DELETE removed the entry of a task, the worker of that task ends
\* without an exception leaving it and the entry stays absent.
C6_DeletedEntryTolerated ==
    \A t \in TaskIds :
        hist[t].deleted => (~HasTask(t) /\ worker[t].pc # "crashed")

\* C7: no exception leaves the worker, and a worker that ended through the
\* task-boundary handler left status `error`, progress 0 and the text of the
\* exception in the message.
C7_BoundaryCatchesAll ==
    \A t \in TaskIds :
        /\ worker[t].pc # "crashed"
        /\ ( /\ HasTask(t)
             /\ worker[t].pc = "done"
             /\ worker[t].exc # NoError )
           => /\ download_tasks[t].status = "error"
              /\ download_tasks[t].progress = 0
              /\ download_tasks[t].message = "Error: " \o worker[t].exc.text

\* C8: between two consecutive ledger states of a task that has not reached a
\* terminal status, the progress does not decrease.
C8_ProgressMonotone ==
    [][\A t \in TaskIds :
          ( /\ HasTask(t)
            /\ t \in DOMAIN download_tasks'
            /\ download_tasks[t].status \notin Terminal
            /\ download_tasks'[t].status \notin Terminal )
          => download_tasks'[t].progress >= download_tasks[t].progress]_vars

\* C9: whenever the status of a task is `completed`, its progress is 100.
C9_CompletedHasFullProgress ==
    \A t \in TaskIds :
        (HasTask(t) /\ download_tasks[t].status = "completed")
        => download_tasks[t].progress = 100

\* a task set `completed` by the progress hook after an event had reported
\* another progress, its worker still downloading
C9_Witness ==
    \E t \in TaskIds :
        /\ HasTask(t)
        /\ download_tasks[t].status = "completed"
        /\ worker[t].pc = "download"
        /\ worker[t].attempt > 0

\* C10: a task runs at most 5 attempts, one after another (an attempt starts
\* only after the one before it failed); extract_info and download are each
\* called at most 5 times, at most once per attempt, download only after
\* extract_info, whichever of the two failed in the earlier attempts.
C10_SharedAttemptBudget ==
    \A t \in TaskIds :
        /\ hist[t].attempts <= 5
        /\ hist[t].infoCalls <= 5
        /\ hist[t].dlCalls <= 5
        /\ hist[t].infoCalls <= hist[t].attempts
        /\ hist[t].dlCalls <= hist[t].infoCalls
        /\ hist[t].attempts <= hist[t].failures + 1

\* five attempts were run, some ended by a metadata failure and some by a
\* download failure
C10_Witness ==
    \E t \in TaskIds :
        /\ hist[t].attempts = 5
        /\ hist[t].failures = 5
        /\ hist[t].infoCalls = 5
        /\ hist[t].dlCalls \in 1..4

\* the extractor's errors whose text names blocked access
TransientRaised ==
    { e \in Raised :
        \E keyword \in TransientKeywords : Contains(error_text_lower(e), keyword) }

\* C11: an exception raised by extract_info leaves the worker as the same
\* exception raised by download in the same attempt would: the same
\* classification, the same decision to retry or abort, the same recorded
\* last error (which decides the final status).
C11_InfoFailureLikeDownloadFailure ==
    \A t \in TaskIds, e \in Raised :
        worker[t].pc = "extract"
        => InfoExcept(e, worker[t].attempt) = LoopExcept(e, worker[t].attempt)

\* C12: no delay is applied before attempt index 0, and the worker sleeps
\* 5, 10, 20, 30 seconds before attempt indexes 1, 2, 3, 4.
C12_BackoffDelays ==
    \A t \in TaskIds :
        LET w == worker[t] IN
        /\ w.pc \in {"backoff", "sleep"} => w.attempt \in 1..4
        /\ (w.pc \in {"extract", "download"} /\ w.attempt = 0) => w.delay = 0
        /\ w.pc = "sleep" =>
              w.delay = CASE w.attempt = 1 -> 5
                          [] w.attempt = 2 -> 10
                          [] w.attempt = 3 -> 20
                          [] w.attempt = 4 -> 30
                          [] OTHER -> -1

\* the worker asleep before the last attempt
C12_Witness ==
    \E t \in TaskIds :
        /\ worker[t].pc = "sleep"
        /\ worker[t].attempt = 4
        /\ worker[t].delay = 30

\* C13: when all 5 attempts failed with errors of the extractor, the message
\* of the task is the "temporarily blocked" message when the text of the last
\* error contains "player response", and the text of the last error otherwise.
C13_ExhaustionMessage ==
    \A t \in TaskIds :
        ( /\ HasTask(t)
          /\ worker[t].pc = "done"
          /\ hist[t].attempts = 5
          /\ hist[t].failures = 5
          /\ ~hist[t].broke
          /\ worker[t].last_error \in Raised
          /\ ~IsGone(worker[t].last_error) )
        => download_tasks[t].message =
              "Error: " \o
              (IF Contains(error_text_lower(worker[t].last_error), "player response")
               THEN UpstreamBlocked.text
               ELSE worker[t].last_error.text)

\* C14: an attempt that fails with an access-blocked text ("403",
\* "forbidden", "blocked", "unavailable") is followed by the next attempt when
\* it is not the 5th, and the task whose 5th attempt failed this way ends
\* `error` with the text of that error.
C14_BlockedRetriedThenRaw ==
    /\ [][\A t \in TaskIds, e \in TransientRaised :
            (DownloadFail(t, e) \/ ExtractInfoFail(t, e))
            => IF worker[t].attempt < 4
               THEN /\ worker'[t].pc = "loop"
                    /\ worker'[t].attempt = worker[t].attempt + 1
               ELSE /\ worker'[t].pc = "boundary"
                    /\ worker'[t].exc = e]_vars
    /\ [](\A t \in TaskIds :
            /\ worker[t].pc = "loop" => worker[t].attempt \in 0..4
            /\ ( /\ HasTask(t)
                 /\ worker[t].pc = "done"
                 /\ hist[t].failures = 5
                 /\ ~hist[t].broke
                 /\ worker[t].last_error \in TransientRaised )
               => /\ download_tasks[t].status = "error"
                  /\ download_tasks[t].message
                        = "Error: " \o worker[t].last_error.text)

\* five attempts failed, the last one with an access-blocked text, and the
\* task ended `error`
C14_Witness ==
    \E t \in TaskIds :
        /\ HasTask(t)
        /\ worker[t].pc = "done"
        /\ hist[t].attempts = 5
        /\ hist[t].failures = 5
        /\ worker[t].last_error \in TransientRaised
        /\ download_tasks[t].status = "error"
        /\ download_tasks[t].message = "Error: HTTP Error 403: Forbidden"

\* C15: while a worker is in its backoff delay or inside extract_info,
\* download or the transcoder, GET /status can be served.
C15_ExternalCallsDoNotBlock ==
    \A t \in TaskIds :
        worker[t].pc \in {"sleep", "extract", "download", "convert"}
        => ENABLED (\E task_id \in QueryIds : get_download_status(task_id))

\* the endpoints that only read the ledger
Lookups == {"GET /status", "GET /file"}

\* C16: GET /status/{id} and GET /file/{id} for an id that is not in the
\* ledger answer 404 "not found", never a record, and no lookup changes the
\* ledger.
C16_UnknownIdNotFound ==
    /\ [](( /\ resp.endpoint \in Lookups
            /\ ~HasTask(resp.task_id) )
          => resp = ErrorResponse(resp.endpoint, resp.task_id, 404,
                                  "Tarea no encontrada"))
    /\ [][resp'.endpoint \in Lookups => download_tasks' = download_tasks]_vars

\* GET /file for the id that is never created answered 404 while the ledger
\* holds another task
C16_Witness ==
    /\ resp = ErrorResponse("GET /file", "t0", 404, "Tarea no encontrada")
    /\ \E t \in TaskIds : HasTask(t)

\* C17: GET /file/{id} streams a file only when the task exists, its status
\* is `completed` and its recorded file is on disk; it answers 400 when the
\* status is not `completed`, and 404 when the id is unknown or the recorded
\* file is missing.
C17_FileServedOnlyWhenCompleted ==
    resp.endpoint = "GET /file" =>
        LET id == resp.task_id IN
        /\ resp.status_code \in {200, 400, 404}
        /\ resp.status_code = 200
              => /\ HasTask(id)
                 /\ download_tasks[id].status = "completed"
                 /\ download_tasks[id].file_path \in files
                 /\ resp.body.path = download_tasks[id].file_path
        /\ ~HasTask(id) => resp.status_code = 404
        /\ (HasTask(id) /\ download_tasks[id].status # "completed")
              => resp.status_code = 400
        /\ ( /\ HasTask(id)
             /\ download_tasks[id].status = "completed"
             /\ download_tasks[id].file_path \notin files )
              => resp.status_code = 404

\* the file of a completed task was streamed
C17_Witness ==
    /\ resp.endpoint = "GET /file"
    /\ resp.status_code = 200
    /\ HasTask(resp.task_id)
    /\ worker[resp.task_id].pc = "done"

\* C18: POST /download with a format outside {mp3, mp4, wav, m4a} answers 400,
\* leaves the ledger unchanged and schedules no worker; with a valid format
\* it adds one entry under a fresh id with status `pending` and progress 0,
\* schedules one worker for that id and returns the id with status `pending`.
C18_PostValidatesAndCreates ==
    [][\A url \in Urls, format \in Formats, quality \in Qualities :
          start_download(url, format, quality)
          => IF format \notin {"mp3", "mp4", "wav", "m4a"}
             THEN /\ resp'.status_code = 400
                  /\ download_tasks' = download_tasks
                  /\ worker' = worker
             ELSE \E id \in TaskIds :
                    /\ ~HasTask(id)
                    /\ ~hist[id].deleted
                    /\ worker[id].pc = "idle"
                    /\ DOMAIN download_tasks' = DOMAIN download_tasks \cup {id}
                    /\ \A k \in DOMAIN download_tasks :
                          download_tasks'[k] = download_tasks[k]
                    /\ download_tasks'[id].status = "pending"
                    /\ download_tasks'[id].progress = 0
                    /\ worker'[id].pc = "scheduled"
                    /\ \A k \in TaskIds \ {id} : worker'[k] = worker[k]
                    /\ resp'.status_code = 200
                    /\ resp'.body.task_id = id
                    /\ resp'.body.status = "pending"]_vars

\* a POST with a valid format has just been answered
C18_Witness ==
    /\ resp.endpoint = "POST /download"
    /\ resp.status_code = 200
    /\ HasTask(resp.task_id)
    /\ download_tasks[resp.task_id].status = "pending"
    /\ worker[resp.task_id].pc = "scheduled"

\* C19: DELETE /task/{id} answers 404 and changes nothing for an unknown id;
\* otherwise it removes the entry and at most the recorded file and leaves the
\* worker as it is; the id is then absent from the ledger for ever and
\* GET /status/{id} answers 404, whatever the worker does.
C19_DeletedStaysAbsent ==
    /\ [][\A id \in QueryIds :
            delete_task(id)
            => IF ~HasTask(id)
               THEN /\ resp'.status_code = 404
                    /\ UNCHANGED <<download_tasks, worker, files>>
               ELSE /\ DOMAIN download_tasks' = (DOMAIN download_tasks) \ {id}
                    /\ \A k \in DOMAIN download_tasks' :
                          download_tasks'[k] = download_tasks[k]
                    /\ worker' = worker
                    /\ files' \subseteq files
                    /\ files \ files' \subseteq {Get(download_tasks[id], "file_path")}
                    /\ resp'.status_code = 200]_vars
    /\ [](\A t \in TaskIds : hist[t].deleted => ~HasTask(t))
    /\ [](( /\ resp.endpoint = "GET /status"
            /\ resp.task_id \in TaskIds
            /\ hist[resp.task_id].deleted )
          => resp.status_code = 404)

\* the entry was deleted while its worker slept, the worker ran on, and a
\* later GET /status was answered 404
C19_Witness ==
    \E t \in TaskIds :
        /\ hist[t].deleted
        /\ hist[t].attempts >= 2
        /\ worker[t].pc = "crashed"
        /\ resp = ErrorResponse("GET /status", t, 404, "Tarea no encontrada")

\* C20: after a conversion that exited 0 and wrote the converted file, a task
\* that has ended is `completed`, its result is the converted file, its
\* actual_format is the requested format, and the original file is deleted.
C20_ConvertedAndOriginalDeleted ==
    \A t \in TaskIds :
        (HasTask(t) /\ worker[t].pc = "done" /\ hist[t].original # "")
        => /\ download_tasks[t].status = "completed"
           /\ download_tasks[t].file_path
                 = with_suffix(hist[t].original, "." \o worker[t].format_type)
           /\ download_tasks[t].file_path # hist[t].original
           /\ download_tasks[t].actual_format = worker[t].format_type
           /\ hist[t].original \notin files

\* C20, amended: as above, the original file being deleted unless its unlink
\* raised, in which case it stays on disk and the task completes all the same.
C20_ConvertedOriginalDeletedUnlessUnlinkFails ==
    \A t \in TaskIds :
        (HasTask(t) /\ worker[t].pc = "done" /\ hist[t].original # "")
        => /\ download_tasks[t].status = "completed"
           /\ download_tasks[t].file_path
                 = with_suffix(hist[t].original, "." \o worker[t].format_type)
           /\ download_tasks[t].file_path # hist[t].original
           /\ download_tasks[t].actual_format = worker[t].format_type
           /\ worker[t].format_type \in AudioFormats
           /\ worker[t].ffmpeg_available
           /\ (hist[t].original \in files => hist[t].unlinkFailed)

\* an mp3 request whose .webm download was converted: the task is completed
\* with the .mp3 file on disk and the .webm file gone
C20_Witness ==
    \E t \in TaskIds :
        /\ HasTask(t)
        /\ worker[t].pc = "done"
        /\ hist[t].original = "downloads/Song_idA.webm"
        /\ download_tasks[t].file_path = "downloads/Song_idA.mp3"
        /\ download_tasks[t].actual_format = "mp3"
        /\ download_tasks[t].status = "completed"
        /\ "downloads/Song_idA.mp3" \in files
        /\ "downloads/Song_idA.webm" \notin files

\* C21: when the attempt loop ended with a success and a file of the content
\* is on disk, the task ends `completed`; after a conversion that exited
\* non-zero or raised, the original file is kept, is the result of the task
\* with its own format, and the message says the conversion failed.
C21_MismatchNeverFatal ==
    \A t \in TaskIds :
        ( /\ HasTask(t)
          /\ worker[t].pc = "done"
          /\ worker[t].sweep = "queued"
          /\ hist[t].broke
          /\ Glob(worker[t].info.id) # {} )
        => /\ download_tasks[t].status = "completed"
           /\ (hist[t].ffmpegRuns > 0 /\ hist[t].original = "")
              => /\ download_tasks[t].file_path = worker[t].file_path
                 /\ download_tasks[t].file_path \in files
                 /\ download_tasks[t].actual_format
                       = replace(lower(suffix(download_tasks[t].file_path)), ".", "")
                 /\ download_tasks[t].actual_format # worker[t].format_type
                 /\ Contains(download_tasks[t].message, "No se pudo convertir a")

\* C22: when the file found has the requested format already, the
\* transcoder is not run, file discovery and the final update create and
\* delete no file, and the task's result is that file with the plain
\* success message.
C22_MatchingFormatIsNoOp ==
    /\ [](\A t \in TaskIds :
            ( /\ HasTask(t)
              /\ worker[t].pc = "done"
              /\ worker[t].exc = NoError
              /\ hist[t].original = ""
              /\ worker[t].actual_format = worker[t].format_type )
            => /\ hist[t].ffmpegRuns = 0
               /\ download_tasks[t].status = "completed"
               /\ download_tasks[t].file_path = worker[t].file_path
               /\ replace(lower(suffix(worker[t].file_path)), ".", "")
                     = worker[t].format_type
               /\ download_tasks[t].actual_format = worker[t].format_type
               /\ download_tasks[t].message = "Descarga completada exitosamente")
    /\ [][\A t \in TaskIds : (Discover(t) \/ Finalize(t)) => files' = files]_vars

\* an m4a request whose download is an .m4a file, completed
C22_Witness ==
    \E t \in TaskIds :
        /\ HasTask(t)
        /\ worker[t].pc = "done"
        /\ worker[t].format_type = "m4a"
        /\ worker[t].ffmpeg_available
        /\ download_tasks[t].status = "completed"
        /\ download_tasks[t].file_path = "downloads/Song_idA.m4a"
        /\ download_tasks[t].message = "Descarga completada exitosamente"
        /\ "downloads/Song_idA.m4a" \in files

\* C23: when the probe returned false and the request is mp3, the extractor
\* configuration of every attempt has no post-processor, the transcoder is
\* never run, and a task completed with a file of another format names that
\* format in its message.
C23_NoTranscoderWithoutCapability ==
    \A t \in TaskIds :
        LET w == worker[t] IN
        ( /\ w.format_type = "mp3"
          /\ ~w.ffmpeg_available
          /\ w.pc \notin {"idle", "scheduled", "configure"} )
        => /\ "postprocessors" \notin DOMAIN w.ydl_opts
           /\ hist[t].ffmpegRuns = 0
           /\ ( /\ HasTask(t)
                /\ w.pc = "done"
                /\ w.exc = NoError
                /\ w.actual_format # "mp3" )
              => /\ download_tasks[t].status = "completed"
                 /\ Contains(download_tasks[t].message,
                             "formato: " \o upper(w.actual_format))

\* an mp3 request without the capability that succeeded in its fifth attempt
\* and delivered an .m4a file
C23_Witness ==
    \E t \in TaskIds :
        /\ HasTask(t)
        /\ worker[t].pc = "done"
        /\ worker[t].format_type = "mp3"
        /\ ~worker[t].ffmpeg_available
        /\ hist[t].attempts = 5
        /\ download_tasks[t].status = "completed"
        /\ download_tasks[t].actual_format = "m4a"
        /\ Contains(download_tasks[t].message, "formato: M4A")

CreationKeys == {"url", "format", "quality", "created_at"}

\* C25: every ledger write of the worker and of the progress hook keeps every
\* key it does not name: no key of an entry disappears, a 'downloading' event
\* (the step inside download that leaves the status `processing`) changes
\* nothing but progress, status and message, and url, format,
\* quality and created_at keep the values of the creation until the entry is
\* deleted.
C25_UpdatesMergePartialRecords ==
    /\ [][\A t \in TaskIds :
            (HasTask(t) /\ t \in DOMAIN download_tasks')
            => /\ DOMAIN download_tasks[t] \subseteq DOMAIN download_tasks'[t]
               /\ \A k \in CreationKeys :
                     download_tasks'[t][k] = download_tasks[t][k]
               /\ ( /\ worker[t].pc = "download"
                    /\ worker'[t].pc = "download"
                    /\ download_tasks'[t].status = "processing" )
                  => \A k \in DOMAIN download_tasks[t]
                              \ {"progress", "status", "message"} :
                        download_tasks'[t][k] = download_tasks[t][k]]_vars
    /\ [](\A t \in TaskIds :
            HasTask(t)
            => /\ CreationKeys \subseteq DOMAIN download_tasks[t]
               /\ download_tasks[t].url = worker[t].url
               /\ download_tasks[t].format = worker[t].format_type
               /\ download_tasks[t].quality = worker[t].quality)

\* a completed entry that holds the keys of its creation, of the metadata
\* step and of the final update
C25_Witness ==
    \E t \in TaskIds :
        /\ HasTask(t)
        /\ worker[t].pc = "done"
        /\ download_tasks[t].status = "completed"
        /\ {"url", "created_at", "video_info", "actual_format"}
              \subseteq DOMAIN download_tasks[t]
        /\ download_tasks[t].url = "https://youtu.be/idA"

\* ydl_opts of attempt index k when every attempt before it got its strategy
RECURSIVE PlanFor(_, _, _, _)
PlanFor(k, format_type, quality, ffmpeg_available) ==
    Strategy(IF k = 0 THEN FormatOpts(format_type, quality, ffmpeg_available)
             ELSE PlanFor(k - 1, format_type, quality, ffmpeg_available),
             k)

Plans ==
    [ k \in 0..(max_attempts - 1), format_type \in Formats,
      quality \in Qualities, ffmpeg_available \in BOOLEAN |->
        PlanFor(k, format_type, quality, ffmpeg_available) ]

\* C26: the configuration the extractor is called with in attempt index k is
\* decided by k, the requested format and quality and the capability alone,
\* whatever the earlier attempts raised and in whichever phase.
C26_PlanDependsOnAttemptOnly ==
    \A t \in TaskIds :
        LET w == worker[t] IN
        w.pc \in {"extract", "download"}
        => w.ydl_opts = Plans[w.attempt, w.format_type, w.quality, w.ffmpeg_available]

\* the extractor about to be called in attempt index 3 after failures of
\* both phases
C26_Witness ==
    \E t \in TaskIds :
        /\ worker[t].pc = "extract"
        /\ worker[t].attempt = 3
        /\ worker[t].last_error # NoError
        /\ hist[t].dlCalls < hist[t].infoCalls

\* C27: the retention sweep only removes files and does not read or write
\* the ledger, and after an accepted POST /download the sweep queued behind
\* the worker can still run for as long as it has not run: the worker has yet
\* to end, or the sweep is ready to run.
C27_SweepRunsAfterEveryPost ==
    /\ [](\A t \in TaskIds :
            worker[t].sweep = "queued"
            => \/ worker[t].pc \notin Ended
               \/ ENABLED (cleanup_old_files(t, {})))
    /\ [][\A t \in TaskIds, old \in SUBSET files :
            cleanup_old_files(t, old)
            => /\ files' = files \ old
               /\ download_tasks' = download_tasks]_vars

\* C28: the probe answers false whenever running `ffmpeg -version` or
\* `ffprobe -version` finds no executable, times out or exits non-zero.
C28_ProbeFalseOnFailedInvocation ==
    [][\A t \in TaskIds, env \in ProbeEnvs :
          (Configure(t, env) /\ (env.ffmpeg # "rc0" \/ env.ffprobe # "rc0"))
          => ~worker'[t].ffmpeg_available]_vars

\* the two messages of an attempt
AttemptMsg(attempt) ==
    "Intento " \o ToString(attempt + 1) \o " de 5... (Estrategia anti-bloqueo activa)"
DelayMsg(attempt) ==
    "Esperando " \o ToString(Backoff(attempt)) \o "s antes del intento "
        \o ToString(attempt + 1) \o "..."

\* C29: in attempt index k >= 1 the message naming attempt k+1 is written,
\* then the message of the delay, then the worker suspends, and the extractor
\* is called only after the suspension; in attempt index 0 the extractor is
\* called right after the attempt message, without a suspension.
C29_AttemptEventOrder ==
    [][\A t \in TaskIds :
          /\ (worker'[t].pc = "backoff" /\ worker[t].pc # "backoff")
             => /\ worker[t].pc = "loop"
                /\ worker'[t].attempt >= 1
                /\ download_tasks'[t].message = AttemptMsg(worker'[t].attempt)
          /\ (worker'[t].pc = "sleep" /\ worker[t].pc # "sleep")
             => /\ worker[t].pc = "backoff"
                /\ download_tasks[t].message = AttemptMsg(worker[t].attempt)
                /\ download_tasks'[t].message = DelayMsg(worker[t].attempt)
          /\ (worker'[t].pc = "extract" /\ worker[t].pc # "extract")
             => IF worker'[t].attempt = 0
                THEN /\ worker[t].pc = "loop"
                     /\ download_tasks'[t].message = AttemptMsg(0)
                ELSE /\ worker[t].pc = "sleep"
                     /\ HasTask(t)
                        => download_tasks[t].message = DelayMsg(worker[t].attempt)]_vars

\* the extractor about to be called in attempt index 2, after the sleep
C29_Witness ==
    \E t \in TaskIds :
        /\ HasTask(t)
        /\ worker[t].pc = "extract"
        /\ worker[t].attempt = 2
        /\ download_tasks[t].message = "Esperando 10s antes del intento 3..."

\* C30: the progress of every task is between 0 and 100.
C30_ProgressWithinRange ==
    \A t \in TaskIds :
        HasTask(t) => download_tasks[t].progress \in 0..100


\* the file the ledger records as the result of a completed task b
Result(b) ==
    IF HasTask(b) /\ download_tasks[b].status = "completed"
       /\ "file_path" \in DOMAIN download_tasks[b]
    THEN download_tasks[b].file_path
    ELSE ""

\* C31: for two tasks a and b, a DELETE of a and a conversion in a's worker
\* leave the file recorded as the result of the completed task b on disk.
C31_OtherTasksResultKept ==
    [][\A a \in TwoTaskIds, b \in TwoTaskIds :
          ( /\ a # b
            /\ Result(b) \in files
            /\ \/ delete_task(a)
               \/ \E outcome \in ConvertOutcomes, unlinked \in BOOLEAN :
                     Convert(a, outcome, unlinked) )
          => Result(b) \in files']_vars

====
